---- MODULE Spec2Model ----
(***************************************************************************)
(* The pointer-edge daemon of src/src/main.rs: the event loop of main, the *)
(* geometry resolver get_xymax, the edge classifier in_edge, the debounce  *)
(* test, the delay-and-recheck confirmation and the command dispatcher run.*)
(***************************************************************************)
EXTENDS Integers, Naturals, Sequences, FiniteSets, TLC

(* ------------------------------------------------------------------ *)
(* Bounds of the model                                                *)
(* ------------------------------------------------------------------ *)
\* width and height of the primary monitor, in pixels
MonW == 5
MonH == 5
\* width of the secondary monitor
SideW == 2
\* events that can be in flight (socket plus Xlib queue) at one time
MaxQueue == 2

(* ------------------------------------------------------------------ *)
(* Program constants                                                  *)
(* ------------------------------------------------------------------ *)
default_delay == 0
max_delay == 1000
\* initial value of oldx and oldy
OldInit == 1

\* value of a local that is not live
NoVal == -1

Min(a, b) == IF a <= b THEN a ELSE b

(* ------------------------------------------------------------------ *)
(* enum Edge                                                          *)
(* ------------------------------------------------------------------ *)
Corners == {"TOPLEFT", "TOPRIGHT", "BOTTOMRIGHT", "BOTTOMLEFT"}
Sides == {"LEFT", "TOP", "RIGHT", "BOTTOM"}
Edge == Corners \cup Sides \cup {"NONE"}

(* ------------------------------------------------------------------ *)
(* Monitor rectangles and option values                               *)
(* ------------------------------------------------------------------ *)
Rect(rx, ry, rw, rh) == [x |-> rx, y |-> ry, width |-> rw, height |-> rh]

\* Option<String>: a string is a sequence of characters, " " the only whitespace
NoneStr == [some |-> FALSE, s |-> <<>>]
SomeStr(str) == [some |-> TRUE, s |-> str]
\* Option<u64>
NoneNum == [some |-> FALSE, n |-> 0]
SomeNum(k) == [some |-> TRUE, n |-> k]

(* ------------------------------------------------------------------ *)
(* Pure functions                                                     *)
(* ------------------------------------------------------------------ *)
point_in_rect(px, py, rect) ==
    /\ rect.x <= px /\ px < rect.x + rect.width
    /\ rect.y <= py /\ py < rect.y + rect.height

RECURSIVE pim_from(_, _, _, _)
pim_from(i, px, py, mons) ==
    IF i > Len(mons) THEN -1
    ELSE IF point_in_rect(px, py, mons[i]) THEN i - 1
    ELSE pim_from(i + 1, px, py, mons)

\* a variant that returns the last monitor that contains the point
pointer_in_monitor_last(px, py, mons) ==
    LET hits == {i \in 1 .. Len(mons) : point_in_rect(px, py, mons[i])}
    IN  IF hits = {} THEN -1
        ELSE (CHOOSE i \in hits : \A j \in hits : j <= i) - 1

\* index (from 0) of the first monitor that contains the point, or -1
pointer_in_monitor(px, py, mons) == pim_from(1, px, py, mons)

\* a variant that takes the monitor's far side whatever the root bound
shrink_max_unclamped(off, len, rootmax) == off + len - 1

\* one axis of get_xymax: the root bound, shrunk to the monitor's far side
shrink_max(off, len, rootmax) ==
    IF off + len <= rootmax THEN off + len - 1 ELSE rootmax

\* a variant that falls back to the root bounds when no monitor contains the point
get_xymax_fallback(px, py, rootw, rooth, mons) ==
    LET rx == rootw - 1
        ry == rooth - 1
        i == pointer_in_monitor(px, py, mons)
    IN  IF Len(mons) = 1 \/ i < 0 THEN [panic |-> FALSE, xmax |-> rx, ymax |-> ry]
        ELSE [panic |-> FALSE,
              xmax |-> shrink_max(mons[i + 1].x, mons[i + 1].width, rx),
              ymax |-> shrink_max(mons[i + 1].y, mons[i + 1].height, ry)]

\* [panic, xmax, ymax]; panic is the panic!() of a pointer in no monitor
get_xymax(px, py, rootw, rooth, mons) ==
    LET rx == rootw - 1
        ry == rooth - 1
        i == pointer_in_monitor(px, py, mons)
    IN  IF Len(mons) = 1 THEN [panic |-> FALSE, xmax |-> rx, ymax |-> ry]
        ELSE IF i < 0 THEN [panic |-> TRUE, xmax |-> rx, ymax |-> ry]
        ELSE [panic |-> FALSE,
              xmax |-> shrink_max(mons[i + 1].x, mons[i + 1].width, rx),
              ymax |-> shrink_max(mons[i + 1].y, mons[i + 1].height, ry)]

\* ((ymax as f64) * 0.25) as i32: truncation toward zero
hot_offset(ym) == IF ym >= 0 THEN ym \div 4 ELSE -((-ym) \div 4)

\* a variant whose band includes its lower end
in_band_inclusive(v, vmax, off) == v >= off /\ v < vmax - off

\* the midsection of an edge: strictly between the two dead zones
in_band(v, vmax, off) == v > off /\ v < vmax - off

\* a variant whose two right-hand corners are exchanged
in_edge_right_swapped(px, py, xm, ym, off) ==
    IF px = 0 /\ py = 0 THEN "TOPLEFT"
    ELSE IF px = xm /\ py = 0 THEN "BOTTOMRIGHT"
    ELSE IF px = xm /\ py = ym THEN "TOPRIGHT"
    ELSE IF px = 0 /\ py = ym THEN "BOTTOMLEFT"
    ELSE IF px = 0 /\ in_band(py, ym, off) THEN "LEFT"
    ELSE IF py = 0 /\ in_band(px, xm, off) THEN "TOP"
    ELSE IF px = xm /\ in_band(py, ym, off) THEN "RIGHT"
    ELSE IF py = ym /\ in_band(px, xm, off) THEN "BOTTOM"
    ELSE "NONE"

\* the classifier: the four corners first, then the four midsections
in_edge(px, py, xm, ym, off) ==
    IF px = 0 /\ py = 0 THEN "TOPLEFT"
    ELSE IF px = xm /\ py = 0 THEN "TOPRIGHT"
    ELSE IF px = xm /\ py = ym THEN "BOTTOMRIGHT"
    ELSE IF px = 0 /\ py = ym THEN "BOTTOMLEFT"
    ELSE IF px = 0 /\ in_band(py, ym, off) THEN "LEFT"
    ELSE IF py = 0 /\ in_band(px, xm, off) THEN "TOP"
    ELSE IF px = xm /\ in_band(py, ym, off) THEN "RIGHT"
    ELSE IF py = ym /\ in_band(px, xm, off) THEN "BOTTOM"
    ELSE "NONE"

\* a variant without the test for an unchanged sample
suppressed_moved_only(px, py, ox, oy, xm, ym, off) ==
    \/ (px = ox /\ py > off /\ py < ym - off)
    \/ (py = oy /\ px > off /\ px < xm - off)

\* a variant without the test for a move along a vertical edge
suppressed_no_vertical(px, py, ox, oy, xm, ym, off) ==
    \/ (px = ox /\ py = oy)
    \/ (py = oy /\ px > off /\ px < xm - off)

\* the test of "Make sure we run commands only once on edge hits"
suppressed(px, py, ox, oy, xm, ym, off) ==
    \/ (px = ox /\ py = oy)
    \/ (px = ox /\ py > off /\ py < ym - off)
    \/ (py = oy /\ px > off /\ px < xm - off)

\* str::split_whitespace
RECURSIVE split_from(_, _, _)
split_from(str, cur, acc) ==
    IF str = <<>> THEN (IF cur = <<>> THEN acc ELSE Append(acc, cur))
    ELSE IF Head(str) = " "
         THEN split_from(Tail(str), <<>>, IF cur = <<>> THEN acc ELSE Append(acc, cur))
         ELSE split_from(Tail(str), Append(cur, Head(str)), acc)

split_whitespace(str) == split_from(str, <<>>, <<>>)

\* the match of run: the command of an edge
cmd_of(cmds, e) == IF e \in DOMAIN cmds THEN cmds[e] ELSE NoneStr

\* run, up to the fork: does it reach the launcher?
run_launches(cmds, e) ==
    LET cmd == cmd_of(cmds, e)
    IN  cmd.some /\ split_whitespace(cmd.s) # <<>>

(* ------------------------------------------------------------------ *)
(* Start-up: the monitors, the root size and the options              *)
(* ------------------------------------------------------------------ *)
Cmd1 == <<"a">>
Cmd2 == <<"a", " ", "b">>
Blank == <<" ", " ">>

NoCmds == [e \in Corners \cup Sides |-> NoneStr]
CmdsTopLeft == [NoCmds EXCEPT !["TOPLEFT"] = SomeStr(Cmd1)]
CmdsAll == [e \in Corners \cup Sides |-> SomeStr(Cmd2)]
CmdsMixed == [e \in Corners \cup Sides |->
                 IF e \in {"TOPLEFT", "LEFT"} THEN SomeStr(Blank)
                 ELSE IF e \in {"TOPRIGHT", "TOP"} THEN NoneStr
                 ELSE SomeStr(Cmd1)]

\* one monitor that fills the root window
LayoutSingle ==
    [rootw |-> MonW, rooth |-> MonH, mons |-> <<Rect(0, 0, MonW, MonH)>>]
\* two monitors with an uncovered column between them; the second one
\* reaches past the root window on both axes
LayoutGap ==
    [rootw |-> MonW, rooth |-> MonH,
     mons |-> <<Rect(0, 0, SideW, MonH), Rect(SideW + 1, 0, MonW, MonH + 1)>>]
\* a small output mirrored into the corner of a large one, small one first
LayoutMirror ==
    [rootw |-> MonW, rooth |-> MonH,
     mons |-> <<Rect(0, 0, SideW + 1, SideW + 1), Rect(0, 0, MonW, MonH)>>]

Setup(layout, dly, blk, cmds) ==
    [rootw |-> layout.rootw, rooth |-> layout.rooth, mons |-> layout.mons,
     delay |-> dly, block |-> blk, cmds |-> cmds]

Configs ==
    { Setup(LayoutSingle, NoneNum, FALSE, CmdsTopLeft),
      Setup(LayoutGap, SomeNum(2000), TRUE, CmdsMixed),
      Setup(LayoutMirror, SomeNum(50), FALSE, CmdsAll) }

\* opts.delay.unwrap_or(default_delay).min(max_delay)
delay_of(c) == Min(IF c.delay.some THEN c.delay.n ELSE default_delay, max_delay)

(* ------------------------------------------------------------------ *)
(* State                                                              *)
(* ------------------------------------------------------------------ *)
VARIABLES
    conf,        \* monitors, root size, options and commands, fixed at start-up
    RUNNING,     \* the flag the signal handler clears
    sock,        \* events waiting on the connection's descriptor
    xq,          \* events Xlib has read into its queue
    pc,          \* where main is
    cookie,      \* TRUE while the data of the fetched event is held
    oldx, oldy,  \* the tracker
    xmax, ymax,  \* bounds of the last resolved monitor
    x, y,        \* the sample of the event in progress
    edge,        \* the zone of that sample
    x2, y2,      \* the sample taken after the delay
    disp,        \* what became of the hit after the delay
    slept,       \* history: milliseconds of the last thread::sleep
    prevx, prevy,  \* history: the sample of the last motion event
    outcome,     \* history: how far the last motion event got
    runLen,      \* history: motion events in a row with this same sample (1, 2 = more)
    runLaunches, \* history: launcher calls during that row (0, 1, 2 = more)
    runFromNone, \* history: the sample before the row was in no zone
    runFirst,    \* history: what became of the first event of the row
    heldZone     \* history: the zone run was last called for, "NONE" once a
                 \* sample outside it got past the debounce test

vars == <<conf, RUNNING, sock, xq, pc, cookie, oldx, oldy, xmax, ymax, x, y, edge,
          x2, y2, disp, slept, prevx, prevy, outcome, runLen, runLaunches,
          runFromNone, runFirst, heldZone>>

env == <<conf, RUNNING, sock, xq>>
locals == <<x, y, edge, x2, y2, disp>>
tracker == <<oldx, oldy>>
bounds == <<xmax, ymax>>
rowhist == <<slept, prevx, prevy, outcome, runLen, runLaunches, runFromNone, runFirst>>
hist == <<rowhist, heldZone>>

\* the local offset of main, bound once the bounds are resolved
offset == hot_offset(ymax)

Alive == pc \notin {"exited", "panic_geometry", "panic_poll"}

\* a variant whose tracker starts at the corner (0,0)
InitAtOrigin ==
    /\ conf \in Configs
    /\ RUNNING = TRUE
    /\ sock = 0 /\ xq = 0
    /\ pc = "top"
    /\ cookie = FALSE
    /\ oldx = 0 /\ oldy = 0
    /\ xmax = 0 /\ ymax = 0
    /\ x = NoVal /\ y = NoVal /\ edge = "unset"
    /\ x2 = NoVal /\ y2 = NoVal /\ disp = "none"
    /\ slept = NoVal
    /\ prevx = NoVal /\ prevy = NoVal /\ outcome = "start"
    /\ runLen = 0 /\ runLaunches = 0 /\ runFromNone = FALSE /\ runFirst = "start"
    /\ heldZone = "NONE"

\* the state before the first iteration of the loop
Init ==
    /\ conf \in Configs
    /\ RUNNING = TRUE
    /\ sock = 0 /\ xq = 0
    /\ pc = "top"
    /\ cookie = FALSE
    /\ oldx = OldInit /\ oldy = OldInit
    /\ xmax = 0 /\ ymax = 0
    /\ x = NoVal /\ y = NoVal /\ edge = "unset"
    /\ x2 = NoVal /\ y2 = NoVal /\ disp = "none"
    /\ slept = NoVal
    /\ prevx = NoVal /\ prevy = NoVal /\ outcome = "start"
    /\ runLen = 0 /\ runLaunches = 0 /\ runFromNone = FALSE /\ runFirst = "start"
    /\ heldZone = "NONE"

(* ------------------------------------------------------------------ *)
(* The environment: signals and the display server                    *)
(* ------------------------------------------------------------------ *)
\* sighandler, run on SIGINT, SIGTERM or SIGHUP
sighandler ==
    /\ Alive
    /\ RUNNING' = FALSE
    /\ UNCHANGED <<conf, sock, xq, pc, cookie, tracker, bounds, locals, hist>>

\* a signal that arrives while poll is blocked: poll returns -1, main panics
PollInterrupted ==
    /\ pc = "poll" /\ sock = 0
    /\ RUNNING' = FALSE
    /\ pc' = "panic_poll"
    /\ UNCHANGED <<conf, sock, xq, cookie, tracker, bounds, locals, hist>>

\* the server sends an event
Arrive ==
    /\ Alive
    /\ sock + xq < MaxQueue
    /\ sock' = sock + 1
    /\ UNCHANGED <<conf, RUNNING, xq, pc, cookie, tracker, bounds, locals, hist>>

(* ------------------------------------------------------------------ *)
(* main: the loop                                                     *)
(* ------------------------------------------------------------------ *)
\* while RUNNING.load(...)
LoopTop ==
    /\ pc = "top"
    /\ pc' = IF RUNNING THEN "pending" ELSE "cleanup"
    /\ UNCHANGED <<env, cookie, tracker, bounds, locals, hist>>

\* XPending(display) == 0: nothing queued and nothing to read, continue
PendingNone ==
    /\ pc = "pending"
    /\ xq = 0 /\ sock = 0
    /\ pc' = "top"
    /\ UNCHANGED <<env, cookie, tracker, bounds, locals, hist>>

\* XPending reads the socket into the queue when the queue is empty;
\* XNextEvent takes the head of the queue and XGetEventData its data
NextEvent ==
    /\ pc = "pending"
    /\ xq + sock > 0
    /\ IF xq = 0 THEN xq' = sock - 1 /\ sock' = 0
                 ELSE xq' = xq - 1 /\ sock' = sock
    /\ cookie' = TRUE
    /\ pc' = "event"
    /\ UNCHANGED <<conf, RUNNING, tracker, bounds, locals, hist>>

\* an event that is not an XI_RawMotion of the input extension
OtherEvent ==
    /\ pc = "event"
    /\ cookie' = FALSE
    /\ pc' = "poll"
    /\ UNCHANGED <<env, tracker, bounds, locals, hist>>

\* the history of a motion event whose sample is (px, py), resolved to (xm, ym)
MotionHistory(px, py, xm, ym, out) ==
    /\ prevx' = px /\ prevy' = py
    /\ outcome' = out
    /\ heldZone' = IF out \in {"none", "pending", "dispatch"}
                      /\ in_edge(px, py, xm, ym, hot_offset(ym)) # heldZone
                   THEN "NONE" ELSE heldZone
    /\ IF px = prevx /\ py = prevy
       THEN /\ runLen' = 2
            /\ UNCHANGED <<runLaunches, runFromNone, runFirst>>
       ELSE /\ runLen' = 1
            /\ runLaunches' = 0
            /\ runFromNone' = (prevx # NoVal
                               /\ in_edge(prevx, prevy, xm, ym, hot_offset(ym)) = "NONE")
            /\ runFirst' = out

\* get_xymax panicked: the sample (px, py) is in no monitor
GeometryPanic(px, py, g) ==
    /\ pc' = "panic_geometry"
    /\ x' = px /\ y' = py
    /\ MotionHistory(px, py, g.xmax, g.ymax, "panic")
    /\ UNCHANGED <<cookie, edge, tracker>>

\* a variant of the suppress branch that advances the tracker before it continues
SuppressAdvancing(px, py, g) ==
    /\ cookie' = FALSE
    /\ pc' = "top"
    /\ oldx' = px /\ oldy' = py
    /\ MotionHistory(px, py, g.xmax, g.ymax, "suppressed")
    /\ UNCHANGED <<x, y, edge>>

\* a variant of the suppress branch that continues without XFreeEventData
SuppressLeaking(px, py, g) ==
    /\ pc' = "top"
    /\ MotionHistory(px, py, g.xmax, g.ymax, "suppressed")
    /\ UNCHANGED <<cookie, x, y, edge, tracker>>

\* the debounce test held: XFreeEventData and continue
Suppress(px, py, g) ==
    /\ cookie' = FALSE
    /\ pc' = "top"
    /\ MotionHistory(px, py, g.xmax, g.ymax, "suppressed")
    /\ UNCHANGED <<x, y, edge, tracker>>

\* the sample is classified; a zone other than NONE goes on to the delay
Classify(px, py, g) ==
    LET e == in_edge(px, py, g.xmax, g.ymax, hot_offset(g.ymax))
    IN  /\ x' = px /\ y' = py
        /\ edge' = e
        /\ pc' = IF e = "NONE" THEN "tail" ELSE "sleep"
        /\ MotionHistory(px, py, g.xmax, g.ymax, IF e = "NONE" THEN "none" ELSE "pending")
        /\ UNCHANGED <<cookie, tracker>>

\* a raw motion event, from query_pointer to the classification
Motion ==
    /\ pc = "event"
    /\ \E px \in 0 .. conf.rootw - 1, py \in 0 .. conf.rooth - 1 :
         LET g == get_xymax(px, py, conf.rootw, conf.rooth, conf.mons)
         IN  /\ xmax' = g.xmax /\ ymax' = g.ymax
             /\ IF g.panic
                THEN GeometryPanic(px, py, g)
                ELSE IF suppressed(px, py, oldx, oldy, g.xmax, g.ymax, hot_offset(g.ymax))
                THEN Suppress(px, py, g)
                ELSE Classify(px, py, g)
    /\ UNCHANGED <<env, x2, y2, disp, slept>>

\* a variant that runs the command without comparing the zones
run_result_unchecked(same, launches, forked) ==
    IF ~launches THEN "noop"
    ELSE IF forked THEN "launched" ELSE "forkfail"

\* the hit after the delay: "discard", or what run did with it
run_result(same, launches, forked) ==
    IF ~same THEN "discard"
    ELSE IF ~launches THEN "noop"
    ELSE IF forked THEN "launched" ELSE "forkfail"

\* thread::sleep(delay), the second query_pointer, the comparison and run
Confirm ==
    /\ pc = "sleep"
    /\ \E qx \in 0 .. conf.rootw - 1, qy \in 0 .. conf.rooth - 1, forked \in BOOLEAN :
         LET same == (edge = in_edge(qx, qy, xmax, ymax, offset))
             launches == run_launches(conf.cmds, edge)
             res == run_result(same, launches, forked)
         IN  /\ (same /\ launches) \/ forked
             /\ slept' = delay_of(conf)
             /\ x2' = qx /\ y2' = qy
             /\ disp' = res
             /\ pc' = IF res = "launched" /\ conf.block THEN "wait" ELSE "tail"
             /\ outcome' = IF same THEN "dispatch" ELSE "discard"
             /\ runFirst' = IF runFirst = "pending" THEN outcome' ELSE runFirst
             /\ runLaunches' = IF same /\ launches THEN Min(runLaunches + 1, 2)
                               ELSE runLaunches
    /\ UNCHANGED <<env, cookie, tracker, bounds, x, y, edge, prevx, prevy, runLen,
                   runFromNone, heldZone>>

\* a variant that reads the flag after the wait and leaves the loop if it is set
ChildExitCancellable ==
    /\ pc = "wait"
    /\ pc' = IF RUNNING THEN "tail" ELSE "cleanup"
    /\ UNCHANGED <<env, cookie, tracker, bounds, locals, hist>>

\* sys::wait::wait() returns: the child of a blocking command has exited
ChildExit ==
    /\ pc = "wait"
    /\ pc' = "tail"
    /\ UNCHANGED <<env, cookie, tracker, bounds, locals, hist>>

\* a variant that leaves the tracker as it was
TrackerUpdateSkipped ==
    /\ pc = "tail"
    /\ cookie' = FALSE
    /\ x' = NoVal /\ y' = NoVal /\ edge' = "unset"
    /\ x2' = NoVal /\ y2' = NoVal /\ disp' = "none"
    /\ pc' = "poll"
    /\ heldZone' = IF disp \in {"noop", "launched", "forkfail"} THEN edge ELSE heldZone
    /\ UNCHANGED <<env, tracker, bounds, rowhist>>

\* oldx = x; oldy = y; XFreeEventData; the locals of the iteration die
TrackerUpdate ==
    /\ pc = "tail"
    /\ oldx' = x /\ oldy' = y
    /\ cookie' = FALSE
    /\ x' = NoVal /\ y' = NoVal /\ edge' = "unset"
    /\ x2' = NoVal /\ y2' = NoVal /\ disp' = "none"
    /\ pc' = "poll"
    /\ heldZone' = IF disp \in {"noop", "launched", "forkfail"} THEN edge ELSE heldZone
    /\ UNCHANGED <<env, bounds, rowhist>>

\* poll(&mut fds, 1, -1) returns once the descriptor is readable
Poll ==
    /\ pc = "poll"
    /\ sock > 0
    /\ pc' = "top"
    /\ UNCHANGED <<env, cookie, tracker, bounds, locals, hist>>

\* XRRFreeMonitors, XCloseDisplay
CleanUp ==
    /\ pc = "cleanup"
    /\ pc' = "exited"
    /\ UNCHANGED <<env, cookie, tracker, bounds, locals, hist>>

Next ==
    \/ sighandler
    \/ PollInterrupted
    \/ Arrive
    \/ LoopTop
    \/ PendingNone
    \/ NextEvent
    \/ OtherEvent
    \/ Motion
    \/ Confirm
    \/ ChildExit
    \/ TrackerUpdate
    \/ Poll
    \/ CleanUp

Spec == Init /\ [][Next]_vars

(* ------------------------------------------------------------------ *)
(* Properties                                                         *)
(* ------------------------------------------------------------------ *)
\* the zone of the last motion event's sample, under the bounds resolved for it
PrevZone == in_edge(prevx, prevy, xmax, ymax, offset)

\* the sample taken after the delay, classified as line 425 classifies it
SecondZone == in_edge(x2, y2, xmax, ymax, offset)

\* run was called for the hit in progress
RunCalled == disp \in {"noop", "launched", "forkfail"}

\* C1: the command of a zone is dispatched only if the sample taken after the
\* delay is in that same zone under the same bounds and offset; a second sample
\* in another zone or in none discards the hit, whatever the delay.
C1_DispatchOnlyIfConfirmed ==
    x2 # NoVal =>
        /\ edge \in Corners \cup Sides
        /\ slept = delay_of(conf)
        /\ RunCalled => SecondZone = edge
        /\ SecondZone # edge => disp = "discard" /\ pc = "tail"
        /\ disp \in {"launched", "forkfail"} => run_launches(conf.cmds, edge)

\* C1 witness: a hit on the corner (0,0) discarded after a delay of 50 ms because
\* the second sample is in no zone
C1_Witness ==
    /\ x = 0 /\ y = 0 /\ edge = "TOPLEFT"
    /\ slept = 50
    /\ SecondZone = "NONE"
    /\ disp = "discard"

\* a step that handles a motion event whose geometry resolved
MotionResolved == pc = "event" /\ pc' \in {"top", "sleep", "tail"}

\* C2: a motion event whose sample is in a zone Z while the sample of the motion
\* event before it was not in Z goes on to the confirmation, and a confirmation
\* whose second sample is still in Z calls run for Z. (Stated for a previous
\* event that was itself handled to the end, so that the tracker holds its sample.)
C2_FreshEntryIsDispatched ==
    /\ [][(/\ MotionResolved
           /\ prevx # NoVal
           /\ outcome \in {"none", "discard", "dispatch"}
           /\ in_edge(prevx', prevy', xmax', ymax', hot_offset(ymax')) # "NONE"
           /\ in_edge(prevx, prevy, xmax', ymax', hot_offset(ymax'))
                 # in_edge(prevx', prevy', xmax', ymax', hot_offset(ymax')))
          => pc' = "sleep"]_vars
    /\ [](x2 # NoVal /\ SecondZone = edge => RunCalled)

\* C3: the second of two motion events in a row with the same sample is
\* suppressed: it is not classified, it does not reach the delay and it
\* dispatches nothing, whatever became of the first.
C3_RepeatIsSuppressed ==
    runLen = 2 =>
        /\ outcome = "suppressed"
        /\ pc \notin {"sleep", "wait", "tail", "panic_geometry"}
        /\ edge = "unset" /\ x2 = NoVal /\ disp = "none"
        /\ runLaunches <= 1

\* C3 witness: a repeat suppressed after a first event that was dispatched
C3_Witness ==
    /\ runLen = 2 /\ outcome = "suppressed"
    /\ runFirst = "dispatch"
    /\ pc = "top"

\* C4: on one monitor with delay 0, a row of events at a corner that has a
\* command, entered from a point in no zone, launches the command exactly once:
\* the first event is not suppressed, it launches once its second sample
\* confirms the corner, and no repeat launches again.
C4_CornerLaunchesOnce ==
    (/\ Len(conf.mons) = 1
     /\ delay_of(conf) = 0
     /\ runFromNone
     /\ PrevZone \in Corners
     /\ run_launches(conf.cmds, PrevZone))
    => /\ runFirst \in {"pending", "dispatch", "discard"}
       /\ runFirst = "dispatch" => runLaunches = 1
       /\ runFirst # "dispatch" => runLaunches = 0
       /\ runLen = 2 => outcome = "suppressed"

\* C4 witness: (5,5)-like sample, then the corner (0,0) launched, then (0,0) again
C4_Witness ==
    /\ Len(conf.mons) = 1 /\ delay_of(conf) = 0
    /\ runFromNone
    /\ prevx = 0 /\ prevy = 0
    /\ runFirst = "dispatch" /\ runLaunches = 1
    /\ runLen = 2 /\ outcome = "suppressed"
    /\ pc = "top"

\* C5: after an event that reached the delay, dispatched or discarded, the
\* tracker holds the sample taken after the delay.
C5_TrackerIsSecondSample ==
    [][(pc = "tail" /\ x2 # NoVal /\ pc' = "poll") => (oldx' = x2 /\ oldy' = y2)]_vars

\* C6: a suppressed motion event leaves the tracker unchanged and classifies,
\* delays and dispatches nothing; the suppress branch is taken exactly on the
\* three conditions; the tracker changes only at the end of a motion event
\* that was not suppressed.
C6_SuppressKeepsTracker ==
    [][/\ (MotionResolved /\ suppressed(prevx', prevy', oldx, oldy, xmax', ymax',
                                        hot_offset(ymax')))
            => /\ pc' = "top"
               /\ oldx' = oldx /\ oldy' = oldy
               /\ edge' = "unset" /\ x2' = NoVal /\ disp' = "none"
               /\ slept' = slept
       /\ (pc = "event" /\ pc' = "top")
            => /\ oldx' = oldx /\ oldy' = oldy
               /\ suppressed(prevx', prevy', oldx, oldy, xmax', ymax', hot_offset(ymax'))
       /\ (oldx' # oldx \/ oldy' # oldy)
            => pc = "tail" /\ outcome # "suppressed" /\ oldx' = x /\ oldy' = y
      ]_vars

\* C6 witness: a row of suppressed samples, the tracker still away from them
C6_Witness ==
    /\ outcome = "suppressed" /\ runLen = 2
    /\ (oldx # prevx \/ oldy # prevy)
    /\ pc = "top"

\* the first monitor in enumeration order that contains the point
FirstContaining(px, py) ==
    CHOOSE i \in 1 .. Len(conf.mons) :
        /\ point_in_rect(px, py, conf.mons[i])
        /\ \A j \in 1 .. i - 1 : ~point_in_rect(px, py, conf.mons[j])

NoMonitorContains(px, py) ==
    \A i \in 1 .. Len(conf.mons) : ~point_in_rect(px, py, conf.mons[i])

\* the monitors of the geometry example
M0 == Rect(0, 0, 1920, 1080)
M1 == Rect(1920, 0, 1920, 1080)

\* C7: get_xymax is the reference resolver: root - 1 on one monitor, without a
\* containment search; otherwise min(root, far side of the containing monitor) - 1,
\* never past the root bounds.
C7_ResolverAgrees ==
    /\ outcome \notin {"start", "panic"} =>
          /\ xmax <= conf.rootw - 1 /\ ymax <= conf.rooth - 1
          /\ IF Len(conf.mons) = 1
             THEN xmax = conf.rootw - 1 /\ ymax = conf.rooth - 1
             ELSE LET m == conf.mons[FirstContaining(prevx, prevy)]
                  IN  /\ xmax = Min(conf.rootw, m.x + m.width) - 1
                      /\ ymax = Min(conf.rooth, m.y + m.height) - 1
    /\ get_xymax(1920, 0, 3840, 1080, <<M0, M1>>)
          = [panic |-> FALSE, xmax |-> 3839, ymax |-> 1079]
    /\ get_xymax(1919, 1079, 3840, 1080, <<M0, M1>>)
          = [panic |-> FALSE, xmax |-> 1919, ymax |-> 1079]
    /\ get_xymax(1500, 900, 1920, 1080, <<Rect(0, 0, 800, 600)>>)
          = [panic |-> FALSE, xmax |-> 1919, ymax |-> 1079]

\* C7 witness: a sample on the monitor that reaches past the root window
C7_Witness ==
    /\ Len(conf.mons) > 1
    /\ outcome \notin {"start", "panic"}
    /\ LET m == conf.mons[FirstContaining(prevx, prevy)]
       IN  m.x + m.width > conf.rootw /\ m.y + m.height > conf.rooth
    /\ xmax = conf.rootw - 1 /\ ymax = conf.rooth - 1

\* C8: with more than one monitor, a sample that no monitor contains ends the
\* process in that cycle, before any classification, delay or dispatch.
C8_OutsideEveryMonitorIsFatal ==
    (Len(conf.mons) > 1 /\ prevx # NoVal /\ NoMonitorContains(prevx, prevy)) =>
        /\ pc = "panic_geometry"
        /\ outcome = "panic"
        /\ edge = "unset" /\ x2 = NoVal /\ disp = "none"
        /\ ~ENABLED Next

\* C8 witness: the process stopped on a sample in the uncovered column
C8_Witness ==
    /\ pc = "panic_geometry"
    /\ Len(conf.mons) > 1
    /\ NoMonitorContains(prevx, prevy)

\* C9: every sample given to in_edge, before and after the delay, lies within
\* the bounds used in that call, also when the pointer is on another monitor
\* after the delay.
C9_ClassifiedSamplesInBounds ==
    /\ edge # "unset" => (0 <= x /\ x <= xmax /\ 0 <= y /\ y <= ymax)
    /\ (x2 # NoVal /\ ~NoMonitorContains(x2, y2))
          => (0 <= x2 /\ x2 <= xmax /\ 0 <= y2 /\ y2 <= ymax)

(* ------------------------------------------------------------------ *)
(* The edge classifier on its own, over all small bounds              *)
(* ------------------------------------------------------------------ *)
\* largest xmax and ymax the classifier is applied to
MaxBound == 9

InitEdge ==
    /\ conf = Setup(LayoutSingle, NoneNum, FALSE, CmdsTopLeft)
    /\ RUNNING = TRUE
    /\ sock = 0 /\ xq = 0
    /\ pc = "classify"
    /\ cookie = FALSE
    /\ oldx = OldInit /\ oldy = OldInit
    /\ xmax \in 0 .. MaxBound /\ ymax \in 0 .. MaxBound
    /\ x = NoVal /\ y = NoVal /\ edge = "unset"
    /\ x2 = NoVal /\ y2 = NoVal /\ disp = "none"
    /\ slept = NoVal
    /\ prevx = NoVal /\ prevy = NoVal /\ outcome = "start"
    /\ runLen = 0 /\ runLaunches = 0 /\ runFromNone = FALSE /\ runFirst = "start"
    /\ heldZone = "NONE"

\* in_edge(x, y, xmax, ymax, offset) with the offset of main
ClassifyPoint ==
    /\ pc = "classify"
    /\ \E px \in 0 .. xmax, py \in 0 .. ymax :
         /\ x' = px /\ y' = py
         /\ edge' = in_edge(px, py, xmax, ymax, offset)
    /\ UNCHANGED <<env, pc, cookie, tracker, bounds, x2, y2, disp, hist>>

SpecEdge == InitEdge /\ [][ClassifyPoint]_vars

\* floor(ymax * 0.25)
FloorQuarter == CHOOSE k \in 0 .. ymax : 4 * k <= ymax /\ ymax < 4 * (k + 1)

\* C10 as stated: Left, Top, Right and Bottom on the four midsections for all
\* bounds, None at x = 0, y = offset and Left at y = offset + 1 inside the band.
C10_MidsectionsAllBounds ==
    edge # "unset" =>
        LET off == FloorQuarter
        IN  /\ (x = 0 /\ off < y /\ y < ymax - off) => edge = "LEFT"
            /\ (y = 0 /\ off < x /\ x < xmax - off) => edge = "TOP"
            /\ (x = xmax /\ off < y /\ y < ymax - off) => edge = "RIGHT"
            /\ (y = ymax /\ off < x /\ x < xmax - off) => edge = "BOTTOM"
            /\ (x = 0 /\ y = off) => edge = "NONE"
            /\ (x = 0 /\ y = off + 1 /\ y < ymax - off) => edge = "LEFT"

\* C10 amended: Left and Top on their midsections for all bounds; Right when
\* xmax > 0 and Bottom when ymax > 0; None at x = 0, y = offset when offset > 0;
\* Left at y = offset + 1 inside the band.
C10_Midsections ==
    edge # "unset" =>
        LET off == FloorQuarter
        IN  /\ (x = 0 /\ off < y /\ y < ymax - off) => edge = "LEFT"
            /\ (y = 0 /\ off < x /\ x < xmax - off) => edge = "TOP"
            /\ (xmax > 0 /\ x = xmax /\ off < y /\ y < ymax - off) => edge = "RIGHT"
            /\ (ymax > 0 /\ y = ymax /\ off < x /\ x < xmax - off) => edge = "BOTTOM"
            /\ (off > 0 /\ x = 0 /\ y = off) => edge = "NONE"
            /\ (x = 0 /\ y = off + 1 /\ y < ymax - off) => edge = "LEFT"

\* C10 witness: the point x = 0, y = offset with offset > 0, classified NONE
C10_Witness ==
    /\ pc = "classify"
    /\ xmax > 0 /\ FloorQuarter > 0
    /\ x = 0 /\ y = FloorQuarter
    /\ edge = "NONE"

\* the corners whose test in in_edge the point passes
MatchingCorners(px, py) ==
    {c \in Corners :
        \/ c = "TOPLEFT" /\ px = 0 /\ py = 0
        \/ c = "TOPRIGHT" /\ px = xmax /\ py = 0
        \/ c = "BOTTOMRIGHT" /\ px = xmax /\ py = ymax
        \/ c = "BOTTOMLEFT" /\ px = 0 /\ py = ymax}

\* the midsections whose test in in_edge the point passes
MatchingSides(px, py) ==
    {c \in Sides :
        \/ c = "LEFT" /\ px = 0 /\ FloorQuarter < py /\ py < ymax - FloorQuarter
        \/ c = "TOP" /\ py = 0 /\ FloorQuarter < px /\ px < xmax - FloorQuarter
        \/ c = "RIGHT" /\ px = xmax /\ FloorQuarter < py /\ py < ymax - FloorQuarter
        \/ c = "BOTTOM" /\ py = ymax /\ FloorQuarter < px /\ px < xmax - FloorQuarter}

\* C11: a point with x in {0, xmax} and y in {0, ymax} is classified as a corner
\* whose test it passes, whatever midsection test it passes too; when xmax > 0
\* and ymax > 0 it passes the test of exactly one corner, and that one is
\* returned.
C11_CornersFirst ==
    (edge # "unset" /\ x \in {0, xmax} /\ y \in {0, ymax}) =>
        /\ edge \in MatchingCorners(x, y)
        /\ edge \notin MatchingSides(x, y)
        /\ (xmax > 0 /\ ymax > 0) => MatchingCorners(x, y) = {edge}

\* C11 witness: the point (xmax, ymax) of a screen with more than one pixel on
\* each axis, classified BOTTOMRIGHT
C11_Witness ==
    /\ pc = "classify"
    /\ xmax > 0 /\ ymax > 0
    /\ x = xmax /\ y = ymax
    /\ edge = "BOTTOMRIGHT"

\* C12: the loop never blocks in poll on the descriptor while an event that
\* XPending has already read into Xlib's queue is still unprocessed.
C12_DrainsBeforeBlocking ==
    (pc = "poll" /\ sock = 0) => xq = 0

\* a step that calls XFreeEventData: the suppress branch (line 409) or the end
\* of the iteration (line 434)
ReleaseStep ==
    \/ pc = "event" /\ pc' \in {"top", "poll"}
    \/ pc = "tail" /\ pc' = "poll"

\* a step that fetches an event and its data (lines 380-387)
FetchStep == pc = "pending" /\ pc' = "event"

\* C13: the data of every fetched event is released exactly once before the next
\* fetch or the exit of the loop: a fetch finds no data held and acquires it,
\* every release frees data that is held, the data is given up by a release
\* only, and none is held between iterations or at the exit. This covers the
\* non-motion event, the suppress branch, a NONE zone, a discarded hit and a
\* dispatch.
C13_CookieReleasedOnce ==
    /\ [][/\ FetchStep => (~cookie /\ cookie')
          /\ ReleaseStep => (cookie /\ ~cookie')
          /\ (cookie # cookie') => (FetchStep \/ ReleaseStep)]_vars
    /\ [](pc \in {"top", "pending", "poll", "cleanup", "exited", "panic_poll"} => ~cookie)

\* C13 witness: the event after a suppressed one is about to be fetched, and the
\* data of the suppressed one has been released
C13_Witness ==
    /\ pc = "pending" /\ xq + sock > 0
    /\ outcome = "suppressed"
    /\ ~cookie

\* the loop has been left
LoopLeft == pc \in {"cleanup", "exited"}

\* C14: RUNNING is read at the loop top only. The loop is left from the top,
\* with the flag cleared, and an iteration starts only with the flag set. With
\* or without the flag, the delay is followed by the second sample, the
\* comparison and the call of run, the wait by the end of the iteration, and
\* the end of the iteration by the tracker update; each of these steps can be
\* taken whatever the flag. Once the loop is left, no event is consumed and
\* nothing is dispatched.
C14_FlagReadAtLoopTopOnly ==
    /\ [][/\ (pc' = "cleanup" /\ pc # "cleanup") => (pc = "top" /\ ~RUNNING)
          /\ (pc = "top" /\ pc' = "pending") => RUNNING
          /\ (pc = "sleep" /\ pc' # "sleep") =>
                /\ pc' \in {"wait", "tail"}
                /\ x2' # NoVal /\ slept' = delay_of(conf)
                /\ (SecondZone' = edge) = RunCalled'
          /\ (pc = "wait" /\ pc' # "wait") => pc' = "tail"
          /\ (pc = "tail" /\ pc' # "tail") =>
                (pc' = "poll" /\ oldx' = x /\ oldy' = y)
          /\ LoopLeft =>
                /\ LoopLeft'
                /\ xq' = xq /\ cookie' = cookie
                /\ disp' = disp /\ runLaunches' = runLaunches
                /\ tracker' = tracker]_vars
    /\ [](LoopLeft => ~RUNNING)
    /\ [](pc = "sleep" => ENABLED Confirm)
    /\ [](pc = "wait" => ENABLED ChildExit)
    /\ [](pc = "tail" => ENABLED TrackerUpdate)

\* C14 witness: the flag was cleared after the top of this iteration; the hit
\* was confirmed after the delay, its command launched and its child waited for
C14_Witness ==
    /\ ~RUNNING
    /\ pc = "tail"
    /\ conf.block /\ disp = "launched"
    /\ slept = max_delay
    /\ SecondZone = edge

\* C15: a cancellation that arrives while the loop is blocked in poll is never
\* lost: the process does not end without the clean-up (XRRFreeMonitors,
\* XCloseDisplay), whether the wait ends by an event or by the signal itself.
C15_CancelInPollCleansUp ==
    ~RUNNING => pc # "panic_poll"

(* ------------------------------------------------------------------ *)
(* The earlier version of the program, rust/src/main.rs               *)
(* ------------------------------------------------------------------ *)
\* run of the earlier version, up to the fork: it forks for every command
\* that is set, without a test of the token list
run_launches_legacy(cmds, e) == cmd_of(cmds, e).some

\* get_xymax of the earlier version: the bounds of the root window
get_xymax_legacy(rootw, rooth) ==
    [panic |-> FALSE, xmax |-> rootw - 1, ymax |-> rooth - 1]

\* the options of the earlier version: no delay and no monitors
ConfigsLegacy ==
    {Setup(LayoutSingle, NoneNum, blk, CmdsMixed) : blk \in BOOLEAN}

InitLegacy ==
    /\ conf \in ConfigsLegacy
    /\ RUNNING = TRUE
    /\ sock = 0 /\ xq = 0
    /\ pc = "top"
    /\ cookie = FALSE
    /\ oldx = OldInit /\ oldy = OldInit
    /\ xmax = 0 /\ ymax = 0
    /\ x = NoVal /\ y = NoVal /\ edge = "unset"
    /\ x2 = NoVal /\ y2 = NoVal /\ disp = "none"
    /\ slept = NoVal
    /\ prevx = NoVal /\ prevy = NoVal /\ outcome = "start"
    /\ runLen = 0 /\ runLaunches = 0 /\ runFromNone = FALSE /\ runFirst = "start"
    /\ heldZone = "NONE"

\* loop {
LegacyLoopTop ==
    /\ pc = "top"
    /\ pc' = "pending"
    /\ UNCHANGED <<env, cookie, tracker, bounds, locals, hist>>

\* a sample that passed the debounce test: in_edge, and run at once for a zone
LegacyClassify(px, py, g, forked) ==
    LET e == in_edge(px, py, g.xmax, g.ymax, hot_offset(g.ymax))
        launches == run_launches_legacy(conf.cmds, e)
        res == IF e = "NONE" THEN "none" ELSE run_result(TRUE, launches, forked)
    IN  /\ (e # "NONE" /\ launches) \/ forked
        /\ x' = px /\ y' = py
        /\ edge' = e
        /\ disp' = res
        /\ pc' = IF res = "launched" /\ conf.block THEN "wait" ELSE "tail"
        /\ MotionHistory(px, py, g.xmax, g.ymax, IF e = "NONE" THEN "none" ELSE "dispatch")
        /\ UNCHANGED <<cookie, tracker>>

\* a raw motion event of the earlier version
LegacyMotion ==
    /\ pc = "event"
    /\ \E px \in 0 .. conf.rootw - 1, py \in 0 .. conf.rooth - 1, forked \in BOOLEAN :
         LET g == get_xymax_legacy(conf.rootw, conf.rooth)
         IN  /\ xmax' = g.xmax /\ ymax' = g.ymax
             /\ IF suppressed(px, py, oldx, oldy, g.xmax, g.ymax, hot_offset(g.ymax))
                THEN forked /\ Suppress(px, py, g) /\ UNCHANGED disp
                ELSE LegacyClassify(px, py, g, forked)
    /\ UNCHANGED <<env, x2, y2, slept>>

\* poll returned a negative value: break, XCloseDisplay
LegacyPollFailed ==
    /\ pc = "poll"
    /\ pc' = "exited"
    /\ UNCHANGED <<env, cookie, tracker, bounds, locals, hist>>

NextLegacy ==
    \/ Arrive
    \/ LegacyLoopTop
    \/ PendingNone
    \/ NextEvent
    \/ OtherEvent
    \/ LegacyMotion
    \/ ChildExit
    \/ TrackerUpdate
    \/ Poll
    \/ LegacyPollFailed

SpecLegacy == InitLegacy /\ [][NextLegacy]_vars

\* the command of the zone is set and its token list is not empty
HasTokens(e) ==
    /\ cmd_of(conf.cmds, e).some
    /\ split_whitespace(cmd_of(conf.cmds, e).s) # <<>>

\* C16: when run is called for a zone, the launcher (fork) is invoked exactly
\* when the zone's command is set and has a token; otherwise nothing is
\* launched and the iteration goes on to its end.
C16_LaunchIffTokens ==
    RunCalled =>
        /\ (disp \in {"launched", "forkfail"}) <=> HasTokens(edge)
        /\ ~HasTokens(edge) => (disp = "noop" /\ pc = "tail")

\* the step handles the first motion event of the run
FirstMotion == MotionResolved /\ prevx = NoVal

\* the samples that the debounce test holds back while the tracker is (1,1)
HeldAtStart(px, py, xm, ym) ==
    \/ px = OldInit /\ py = OldInit
    \/ px = OldInit /\ hot_offset(ym) < py /\ py < ym - hot_offset(ym)
    \/ py = OldInit /\ hot_offset(ym) < px /\ px < xm - hot_offset(ym)

\* C17 as stated: the first motion event is never suppressed, whatever its
\* sample.
C17_FirstEventNeverSuppressed ==
    [][FirstMotion => pc' # "top"]_vars

\* C17 amended: the first motion event is suppressed exactly when its sample is
\* (1,1), or has x = 1 and y strictly inside the band, or has y = 1 and x
\* strictly inside the band; when xmax > 1 and ymax > 1 a first sample in a
\* corner or midsection zone is never suppressed.
C17_FirstEventSuppressedNearStart ==
    [][FirstMotion =>
          /\ (pc' = "top") = HeldAtStart(prevx', prevy', xmax', ymax')
          /\ (xmax' > 1 /\ ymax' > 1 /\ PrevZone' # "NONE") => pc' = "sleep"]_vars

\* C17 witness: on the single monitor the first motion event, with the sample
\* (1,1), has been suppressed and the tracker is still at its initial value
C17_Witness ==
    /\ Len(conf.mons) = 1
    /\ pc = "top" /\ outcome = "suppressed"
    /\ prevx = OldInit /\ prevy = OldInit
    /\ oldx = OldInit /\ oldy = OldInit
    /\ runLen = 1 /\ ~runFromNone /\ runFirst = "suppressed"

\* the longest monitor list of the enumeration orders
MaxMons == 3

\* the rectangles of the three layouts
LayoutRects ==
    {LayoutSingle.mons[1], LayoutGap.mons[1], LayoutGap.mons[2], LayoutMirror.mons[1]}

\* every list of two to MaxMons different rectangles, in every order
MonitorOrders ==
    {ms \in UNION {[1 .. n -> LayoutRects] : n \in 2 .. MaxMons} :
        \A i, j \in DOMAIN ms : i # j => ms[i] # ms[j]}

\* for every order and every sample in some monitor: pointer_in_monitor returns
\* the first monitor that contains it, and get_xymax gives what it gives on the
\* list cut after that monitor (a list of one monitor would take the root
\* bounds, so a first monitor is followed by one that contains no sample)
FirstWinsInEveryOrder ==
    \A ms \in MonitorOrders :
        \A px \in 0 .. MonW - 1, py \in 0 .. MonH - 1 :
            LET hits == {i \in 1 .. Len(ms) : point_in_rect(px, py, ms[i])}
                k == pointer_in_monitor(px, py, ms) + 1
                head == IF k = 1 THEN <<ms[1], Rect(MonW, MonH, 1, 1)>> ELSE SubSeq(ms, 1, k)
            IN  hits # {} =>
                    /\ k \in hits
                    /\ \A i \in hits : k <= i
                    /\ get_xymax(px, py, MonW, MonH, ms)
                          = get_xymax(px, py, MonW, MonH, head)

\* C18: when several monitors contain the sample, the bounds are those of the
\* first of them in the order of the list, in every state of the loop and for
\* every order of the list; the monitors after it have no influence.
C18_FirstContainingWins ==
    /\ (Len(conf.mons) > 1 /\ outcome \notin {"start", "panic"}) =>
          LET k == FirstContaining(prevx, prevy)
          IN  /\ pointer_in_monitor(prevx, prevy, conf.mons) = k - 1
              /\ xmax = shrink_max(conf.mons[k].x, conf.mons[k].width, conf.rootw - 1)
              /\ ymax = shrink_max(conf.mons[k].y, conf.mons[k].height, conf.rooth - 1)
    /\ FirstWinsInEveryOrder

\* C18 witness: a sample that both mirrored monitors contain, resolved to the
\* bounds of the first, smaller one
C18_Witness ==
    /\ Len(conf.mons) = 2
    /\ outcome \notin {"start", "panic"}
    /\ point_in_rect(prevx, prevy, conf.mons[1])
    /\ point_in_rect(prevx, prevy, conf.mons[2])
    /\ xmax = conf.mons[1].width - 1 /\ xmax < conf.mons[2].width - 1
    /\ ymax = conf.mons[1].height - 1 /\ ymax < conf.mons[2].height - 1

\* C19: once an event has been handled, on every path, the suppress branch
\* included, the loop goes to poll; after the first event it never finds the
\* queue empty and goes round again without blocking.
C19_BlocksAfterEveryEvent ==
    [][/\ ReleaseStep => pc' = "poll"
       /\ (outcome # "start" /\ pc = "pending") => pc' # "top"]_vars

(* ------------------------------------------------------------------ *)
(* One monitor whose vertical midsections have more than one pixel     *)
(* ------------------------------------------------------------------ *)
LayoutTall ==
    [rootw |-> MonW, rooth |-> MonH + 1, mons |-> <<Rect(0, 0, MonW, MonH + 1)>>]

InitTall ==
    /\ conf = Setup(LayoutTall, SomeNum(50), TRUE, CmdsAll)
    /\ RUNNING = TRUE
    /\ sock = 0 /\ xq = 0
    /\ pc = "top"
    /\ cookie = FALSE
    /\ oldx = OldInit /\ oldy = OldInit
    /\ xmax = 0 /\ ymax = 0
    /\ x = NoVal /\ y = NoVal /\ edge = "unset"
    /\ x2 = NoVal /\ y2 = NoVal /\ disp = "none"
    /\ slept = NoVal
    /\ prevx = NoVal /\ prevy = NoVal /\ outcome = "start"
    /\ runLen = 0 /\ runLaunches = 0 /\ runFromNone = FALSE /\ runFirst = "start"
    /\ heldZone = "NONE"

SpecTall == InitTall /\ [][Next]_vars

\* C20: with the bounds of one monitor, run is never called for a zone Z while
\* Z is held, that is, after a call of run for Z and before a motion event that
\* got past the debounce test with a sample outside Z: a pointer that stays in
\* Z, at rest or moving, does not launch Z's command again.
C20_OncePerHit ==
    RunCalled => heldZone # edge

\* C20 witness: after run was called for LEFT the pointer moved to another
\* pixel of LEFT; the event was suppressed and LEFT is still held
C20_Witness ==
    /\ heldZone = "LEFT"
    /\ outcome = "suppressed" /\ pc = "top"
    /\ PrevZone = "LEFT"
    /\ prevx = oldx /\ prevy # oldy
    /\ in_edge(oldx, oldy, xmax, ymax, offset) = "LEFT"

====
